---- MODULE Spec2Model ----
(***************************************************************************)
(* Model of the task executor (video_agent/agent_executor.py) and of the   *)
(* workflow orchestrator (host_agent/main.py).                             *)
(*                                                                         *)
(* Both classes are asyncio code: one event loop runs one coroutine at a   *)
(* time and switches only at an await that suspends.  An action of this    *)
(* module is the code one coroutine runs between two suspension points.    *)
(* The library is taken as documented: Task.cancel() makes the cancelled   *)
(* task raise CancelledError at its next step, a Semaphore hands a freed   *)
(* permit to one of the waiting acquirers (which one is not specified),    *)
(* Queue.put on an unbounded queue does not suspend.                       *)
(***************************************************************************)
EXTENDS Integers, Sequences, FiniteSets, TLC

\* ------------------------------------------------------------------ bounds
MaxTasks == 3              \* submissions explored per executor
MaxLoops == 2              \* dispatcher loop tasks created by start()
max_concurrent_tasks == 2  \* N, the executor's constructor argument
MaxRuns == 3               \* calls of process_video_workflow explored
MaxBatch == 3              \* longest url list given to batch_process_videos
MaxSystem == 3             \* tasks plus workflow runs explored side by side
MaxQuery == 2              \* tasks, runs and loops explored with the accessors
MaxDirect == 2             \* workflow runs plus process_video_sync calls explored
MaxGated == 2              \* tasks plus loops explored beside the direct calls
MaxFair == 4               \* tasks plus dispatcher loops explored under fairness

\* --------------------------------------------------------------- constants
None == <<>>               \* Python's None / an absent attribute
Some(x) == <<x>>           \* a present value
\* An attribute is kept as the sequence of the values assigned to it since the
\* object was built with None: None is <<>>, the attribute's value is the last
\* element, and a second assignment shows as a second element.
Assign(attr, x) == Append(attr, x)

GoodUrl == "youtube.com/watch?v=a"
BadUrl == "not-a-video-url"
Urls == {GoodUrl, BadUrl}

VARIABLES
  tasks,            \* self.tasks: dict task_id -> ProcessingTask, in insertion order
  task_queue,       \* self.task_queue: the tasks waiting for the dispatcher
  semaphore,        \* self.semaphore: the number of free permits
  _running,          \* self._running
  _processor_task,   \* self._processor_task: index into loops, or None
  loops,            \* every task created from _process_queue(), with its position
  stopWait,         \* the loop tasks some stop() call is awaiting
  workers,          \* every task created from _process_single_task(task)
  stopped,          \* history: the executor is stopped, every stop() call has returned
                    \* and start() was not called since
  active_workflows, \* self.active_workflows: dict workflow id -> workflow, in insertion order
  runs,             \* every call of process_video_workflow, with its workflow object
  batch,            \* the call of batch_process_videos: its url list, position and id list
  sync_calls,       \* every call of process_video_sync, with its position
  op                \* history: the last call or step, with what it returned

execState == <<tasks, task_queue, semaphore, _running, _processor_task, loops,
               stopWait, workers>>
execVars == <<execState, stopped>>
hostVars == <<active_workflows, runs, batch>>
vars == <<execVars, hostVars, sync_calls, op>>

\* ------------------------------------------------------------ the task store
\* a task built already processing
NewTask_processing(task_id, video_url, now) ==
  [task_id |-> task_id, video_url |-> video_url, status |-> "processing",
   created_at |-> now, completed_at |-> None, result |-> None, error |-> None]

\* ProcessingTask(task_id, video_url, status="pending", created_at=time.time())
NewTask(task_id, video_url, now) ==
  [task_id |-> task_id, video_url |-> video_url, status |-> "pending",
   created_at |-> now, completed_at |-> None, result |-> None, error |-> None]

\* time.time(): the code stores timestamps and never reads them back, so one
\* opaque value stands for every reading of the clock
time_time == "now"

\* str(uuid.uuid4()): a value no earlier call returned; the k-th call yields k
uuid4 == Len(tasks) + 1

\* the position of key k in a dict kept as a sequence of records, 0 if absent
Pos(d, k) ==
  IF \E i \in 1..Len(d) : d[i].task_id = k
  THEN CHOOSE i \in 1..Len(d) : d[i].task_id = k
  ELSE 0

\* a store that puts a new key first
DictPut_first(d, k, v) ==
  IF Pos(d, k) = 0 THEN <<v>> \o d ELSE [d EXCEPT ![Pos(d, k)] = v]

\* d[k] = v: a new key goes last, an existing key keeps its place
DictPut(d, k, v) ==
  IF Pos(d, k) = 0 THEN Append(d, v) ELSE [d EXCEPT ![Pos(d, k)] = v]

\* sum(1 for task in self.tasks.values() if task.status == "processing")
get_active_tasks_count ==
  Cardinality({i \in 1..Len(tasks) : tasks[i].status = "processing"})

\* self.task_queue.qsize()
get_queue_size == Len(task_queue)

Step == [name |-> "step", ret |-> None]

\* a step of the executor leaves the orchestrator's registry alone, and back
exec_step(r) == op' = r /\ UNCHANGED <<hostVars, sync_calls>>
host_step(r) == op' = r /\ UNCHANGED <<execVars, sync_calls>>

\* --------------------------------------------------------------- Init
Init ==
  /\ tasks = <<>>
  /\ task_queue = <<>>
  /\ semaphore = max_concurrent_tasks
  /\ _running = FALSE
  /\ _processor_task = None
  /\ loops = <<>>
  /\ stopWait = {}
  /\ workers = <<>>
  /\ stopped = FALSE
  /\ active_workflows = <<>>
  /\ runs = <<>>
  /\ batch = [pc |-> "idle", urls |-> <<>>, i |-> 0, workflow_ids |-> <<>>]
  /\ sync_calls = <<>>
  /\ op = [name |-> "init", ret |-> None]

\* ------------------------------------------------------------ start / stop
\* asyncio.create_task(self._process_queue()): the new task has not run yet
create_processor_task(ls) == Append(ls, "created")

\* a start() that lost its guard
start_never_noop == FALSE

\* the guard of start(): "if self._running: return"
start_is_noop == _running

\* start(), lines 46-53
start ==
  /\ exec_step([name |-> "start", ret |-> None])
  /\ stopped' = FALSE
  /\ IF start_is_noop
     THEN UNCHANGED <<tasks, task_queue, semaphore, _running, _processor_task,
                      loops, stopWait, workers>>
     ELSE /\ Len(loops) < MaxLoops
          /\ _running' = TRUE
          /\ loops' = create_processor_task(loops)
          /\ _processor_task' = Some(Len(loops) + 1)
          /\ UNCHANGED <<tasks, task_queue, semaphore, stopWait, workers>>

\* Task.cancel(): a task that has not finished raises CancelledError at its
\* next step; a finished task is left alone
cancel(ls, l) ==
  IF ls[l] \in {"created", "waiting"} THEN [ls EXCEPT ![l] = "cancelled"] ELSE ls

\* a stop() that cancels the worker tasks too: they end where they are and
\* leave their task records as they were
stop_cancels_workers(ws) == [w \in 1..Len(ws) |-> [ws[w] EXCEPT !.pc = "done"]]

\* stop(), lines 55-68, cancels self._processor_task only: the worker tasks
\* created at line 112 are referenced nowhere and go on
workers_after_stop(ws) == ws

\* a stop() that empties the queue
stop_clears_queue(q) == <<>>

\* stop(), lines 55-68, does not touch self.task_queue
queue_after_stop(q) == q

\* stop(), lines 55-62: up to the suspension in "await self._processor_task"
stop ==
  IF ~_running
  THEN /\ exec_step([name |-> "stop", ret |-> None])
       /\ stopped' = (stopped \/ stopWait = {})
       /\ UNCHANGED <<tasks, task_queue, semaphore, _running, _processor_task,
                      loops, stopWait, workers>>
  ELSE /\ _running' = FALSE
       /\ IF _processor_task # None
          THEN /\ loops' = cancel(loops, _processor_task[1])
               /\ stopWait' = stopWait \cup {_processor_task[1]}
          ELSE UNCHANGED <<loops, stopWait>>
       /\ workers' = workers_after_stop(workers)
       /\ task_queue' = queue_after_stop(task_queue)
       /\ exec_step([name |-> "stop_called", ret |-> None])
       /\ UNCHANGED <<tasks, semaphore, _processor_task, stopped>>

\* a stop() that does not wait for the task it cancelled
awaited_at_once(ls, l) == TRUE

\* "await self._processor_task", line 65, resumes when the loop task has ended
awaited(ls, l) == ls[l] = "done"

\* stop(), lines 63-68: the awaited loop task has ended, stop() returns
stop_return(l) ==
  /\ l \in stopWait
  /\ awaited(loops, l)
  /\ stopWait' = stopWait \ {l}
  /\ stopped' = (~_running /\ stopWait' = {})
  /\ exec_step([name |-> "stop", ret |-> None])
  /\ UNCHANGED <<tasks, task_queue, semaphore, _running, _processor_task, loops,
                 workers>>

\* ------------------------------------------------------------------ submit
\* a queue that puts a new item first
put_first(q, item) == <<item>> \o q

\* self.task_queue.put(task), line 91: asyncio.Queue keeps arrival order
put(q, item) == Append(q, item)

\* process_video(video_url), lines 70-94
process_video(video_url) ==
  /\ Len(tasks) < MaxTasks
  /\ LET task_id == uuid4
         task == NewTask(task_id, video_url, time_time)
     IN /\ tasks' = DictPut(tasks, task_id, task)
        /\ task_queue' = put(task_queue, task_id)
        /\ exec_step([name |-> "process_video", ret |-> Some(task_id)])
  /\ UNCHANGED <<semaphore, _running, _processor_task, loops, stopWait, workers,
                 stopped>>

\* --------------------------------------------------------------- dispatcher
\* a loop that ends after its first iteration
loop_once == "done"

\* "while self._running": the loop goes on to its next wait, or ends
loop_condition == IF _running THEN "waiting" ELSE "done"

\* a dispatcher that hands one task to two workers
create_worker_task_twice(ws, task_id) ==
  Append(Append(ws, [task |-> task_id, pc |-> "created"]),
         [task |-> task_id, pc |-> "created"])

\* a dispatcher that takes a task and creates no worker for it
create_worker_task_dropped(ws, task_id) == ws

\* asyncio.create_task(self._process_single_task(task))
create_worker_task(ws, task_id) == Append(ws, [task |-> task_id, pc |-> "created"])

\* a cancelled loop task ends: CancelledError is no Exception, so neither
\* except clause of _process_queue catches it
process_queue_cancelled(l) ==
  /\ loops[l] = "cancelled"
  /\ loops' = [loops EXCEPT ![l] = "done"]
  /\ exec_step(Step)
  /\ UNCHANGED <<tasks, task_queue, semaphore, _running, _processor_task,
                 stopWait, workers, stopped>>

\* the first step of a loop task: line 106
process_queue_begin(l) ==
  /\ loops[l] = "created"
  /\ loops' = [loops EXCEPT ![l] = loop_condition]
  /\ exec_step(Step)
  /\ UNCHANGED <<tasks, task_queue, semaphore, _running, _processor_task,
                 stopWait, workers, stopped>>

\* a dispatcher that takes a task only while a permit is free
get_ready_throttled(q, sem) == q # <<>> /\ sem > 0

\* "await asyncio.wait_for(self.task_queue.get(), timeout=1.0)", line 109,
\* returns an item as soon as the queue has one, whatever the permits
get_ready(q, sem) == q # <<>>

\* lines 109-112 and 106: task_queue.get() yields the head of the queue, the
\* task is handed to a new worker, and the loop condition is read again
process_queue_get(l) ==
  /\ loops[l] = "waiting"
  /\ get_ready(task_queue, semaphore)
  /\ task_queue' = Tail(task_queue)
  /\ workers' = create_worker_task(workers, Head(task_queue))
  /\ loops' = [loops EXCEPT ![l] = loop_condition]
  /\ exec_step(Step)
  /\ UNCHANGED <<tasks, semaphore, _running, _processor_task, stopWait,
                 stopped>>

\* lines 114-115 and 106: nothing arrived within a second
process_queue_timeout(l) ==
  /\ loops[l] = "waiting"
  /\ task_queue = <<>>
  /\ loops' = [loops EXCEPT ![l] = loop_condition]
  /\ exec_step(Step)
  /\ UNCHANGED <<tasks, task_queue, semaphore, _running, _processor_task,
                 stopWait, workers, stopped>>

\* an error that ends the loop, as it would without the except clause
on_error_exit == "done"

\* lines 116-117: the except clause logs the error and the loop reads its
\* condition again
on_error == loop_condition

\* an exception other than TimeoutError and CancelledError comes out of the
\* await at line 109, with nothing taken from the queue
process_queue_error(l) ==
  /\ loops[l] = "waiting"
  /\ loops' = [loops EXCEPT ![l] = on_error]
  /\ exec_step([name |-> "process_queue_error", ret |-> None])
  /\ UNCHANGED <<tasks, task_queue, semaphore, _running, _processor_task,
                 stopWait, workers, stopped>>

\* ------------------------------------------------------------------ workers
\* a permit test that is off by one
can_acquire_off_by_one(sem) == sem >= 0

\* Semaphore.acquire() succeeds without waiting while a permit is free
can_acquire(sem) == sem > 0
acquire(sem) == sem - 1

\* a block that keeps its permit on leaving
release_lost(sem) == sem

\* leaving the "async with self.semaphore" block, on return and on exception
release(sem) == sem + 1

\* a worker that forgets line 124
mark_processing_skipped(t) == t

\* line 124
mark_processing(t) == [t EXCEPT !.status = "processing"]

\* a success path that forgets line 132
mark_completed_no_timestamp(t, result, now) ==
  [t EXCEPT !.status = "completed", !.result = Assign(@, result)]

\* lines 131-133
mark_completed(t, result, now) ==
  [t EXCEPT !.status = "completed", !.completed_at = Assign(@, now),
            !.result = Assign(@, result)]

\* a failure path that forgets line 141
mark_failed_no_error(t, e, now) ==
  [t EXCEPT !.status = "failed", !.completed_at = Assign(@, now)]

\* lines 139-141
mark_failed(t, e, now) ==
  [t EXCEPT !.status = "failed", !.completed_at = Assign(@, now),
            !.error = Assign(@, e)]

\* what awaiting self.agent.process_video(video_url) can end in: agent.py
\* lines 62-106.  A URL _extract_video_id rejects always raises ValueError;
\* any other URL yields a result or an error of the remote services.
process_video_outcomes(video_url) ==
  IF video_url = BadUrl
  THEN {[ok |-> FALSE, value |-> "Invalid YouTube URL"]}
  ELSE {[ok |-> TRUE, value |-> "VideoProcessingResult"],
        [ok |-> FALSE, value |-> "service error"]}

\* "async with self.semaphore" and line 124: the worker takes a permit and
\* sets its task to processing, or waits for a permit
worker_enter(w) ==
  /\ workers[w].pc \in {"created", "blocked"}
  /\ LET i == Pos(tasks, workers[w].task)
     IN IF can_acquire(semaphore)
        THEN /\ semaphore' = acquire(semaphore)
             /\ tasks' = [tasks EXCEPT ![i] = mark_processing(tasks[i])]
             /\ workers' = [workers EXCEPT ![w].pc = "backend"]
        ELSE /\ workers[w].pc = "created"
             /\ workers' = [workers EXCEPT ![w].pc = "blocked"]
             /\ UNCHANGED <<tasks, semaphore>>
  /\ exec_step(Step)
  /\ UNCHANGED <<task_queue, _running, _processor_task, loops, stopWait,
                 stopped>>

\* lines 128-143: the backend call ends, the task record gets the outcome and
\* the permit goes back on leaving the "async with" block
worker_finish(w, out) ==
  /\ workers[w].pc = "backend"
  /\ LET i == Pos(tasks, workers[w].task)
     IN /\ out \in process_video_outcomes(tasks[i].video_url)
        /\ tasks' = [tasks EXCEPT ![i] =
                       IF out.ok THEN mark_completed(tasks[i], out.value, time_time)
                       ELSE mark_failed(tasks[i], out.value, time_time)]
  /\ semaphore' = release(semaphore)
  /\ workers' = [workers EXCEPT ![w].pc = "done"]
  /\ exec_step(Step)
  /\ UNCHANGED <<task_queue, _running, _processor_task, loops, stopWait, stopped>>

Outcomes == UNION {process_video_outcomes(u) : u \in Urls}

\* ------------------------------------------------------ workflow orchestrator
\* an id counted from the workflows still processing instead of from all
workflow_id_active(reg, rs) ==
  <<"workflow",
    Cardinality({e \in 1..Len(reg) : rs[reg[e].ref].wf.status = "processing"}) + 1>>

\* f"workflow_{len(self.active_workflows) + 1}", line 78
workflow_id(reg, rs) == <<"workflow", Len(reg) + 1>>

\* the dict built at lines 81-87; the "error" key is absent
new_workflow(id, video_url) ==
  [id |-> id, video_url |-> video_url, status |-> "processing",
   steps |-> <<>>, results |-> <<>>, error |-> None]

\* a registry that puts a new workflow before the ones it holds
registry_put_first(reg, id, ref) == <<[id |-> id, ref |-> ref]>> \o reg

\* self.active_workflows[workflow_id] = workflow, line 89.  The registry holds
\* references: an entry names the run whose workflow object it points to.
registry_put(reg, id, ref) ==
  IF \E e \in 1..Len(reg) : reg[e].id = id
  THEN [e \in 1..Len(reg) |->
          IF reg[e].id = id THEN [id |-> id, ref |-> ref] ELSE reg[e]]
  ELSE Append(reg, [id |-> id, ref |-> ref])

\* self.active_workflows.get(workflow_id), line 145
get_workflow_status(id) ==
  IF \E e \in 1..Len(active_workflows) : active_workflows[e].id = id
  THEN LET e == CHOOSE e \in 1..Len(active_workflows) :
                  active_workflows[e].id = id
       IN Some(runs[active_workflows[e].ref].wf)
  ELSE None

\* list(self.active_workflows.values()), line 149
get_all_workflows ==
  [e \in 1..Len(active_workflows) |-> runs[active_workflows[e].ref].wf]

\* lines 78-94: process_video_workflow from its entry to its first await
workflow_begin(rs, reg, video_url, caller) ==
  LET id == workflow_id(reg, rs)
      wf == new_workflow(id, video_url)
  IN [runs |-> Append(rs, [wf |-> wf, step |-> 1, pc |-> "await",
                           caller |-> caller]),
      reg |-> registry_put(reg, id, Len(rs) + 1)]

\* the two steps of the workflow: step record name and results key
step_name(k) == IF k = 1 THEN "video_processing" ELSE "content_analysis"
result_key(k) == IF k = 1 THEN "video" ELSE "analysis"
last_step == 2

\* a step that is recorded without its results entry
step_completed_no_result(wf, k, result) ==
  [wf EXCEPT !.steps = Append(@, [name |-> step_name(k), status |-> "completed",
                                  result |-> result])]

\* lines 95-100 and 105-110: the step record and the results entry
step_completed(wf, k, result) ==
  [wf EXCEPT !.steps = Append(@, [name |-> step_name(k), status |-> "completed",
                                  result |-> result]),
             !.results = Append(@, [key |-> result_key(k), value |-> result])]

\* line 132
workflow_completed(wf) == [wf EXCEPT !.status = "completed"]

\* an except branch that forgets line 137
workflow_failed_no_error(wf, e) == [wf EXCEPT !.status = "failed"]

\* an except branch that forgets line 136
workflow_failed_keeps_status(wf, e) == [wf EXCEPT !.error = Assign(@, e)]

\* lines 135-137
workflow_failed(wf, e) ==
  [wf EXCEPT !.status = "failed", !.error = Assign(@, e)]

\* what awaiting self.video_agent.analyze_video_content(video_url) can end in:
\* agent.py lines 154-214 (process_video again, then three completions)
analyze_video_content_outcomes(video_url) ==
  IF video_url = BadUrl
  THEN {[ok |-> FALSE, value |-> "Invalid YouTube URL"]}
  ELSE {[ok |-> TRUE, value |-> "analysis"],
        [ok |-> FALSE, value |-> "service error"]}

step_outcomes(k, video_url) ==
  IF k = 1 THEN process_video_outcomes(video_url)
  ELSE analyze_video_content_outcomes(video_url)

\* a run that goes on to its next step after a failure
run_after_failure_ignored(run, out) ==
  IF run.step < last_step
  THEN [run EXCEPT !.wf = IF out.ok THEN step_completed(@, run.step, out.value)
                          ELSE workflow_failed(@, out.value),
                   !.step = @ + 1]
  ELSE IF out.ok
       THEN [run EXCEPT !.wf = workflow_completed(
                                 step_completed(@, run.step, out.value)),
                        !.pc = "returned"]
       ELSE [run EXCEPT !.wf = workflow_failed(@, out.value), !.pc = "raised"]

\* lines 94-141: the run after the awaited step ended in out
run_after(run, out) ==
  IF out.ok
  THEN LET wf == step_completed(run.wf, run.step, out.value)
       IN IF run.step < last_step
          THEN [run EXCEPT !.wf = wf, !.step = @ + 1]
          ELSE [run EXCEPT !.wf = workflow_completed(wf), !.pc = "returned"]
  ELSE [run EXCEPT !.wf = workflow_failed(run.wf, out.value), !.pc = "raised"]

\* lines 164-168 of batch_process_videos: the id list after a run ended
batch_collect(ids, run) ==
  IF run.pc = "returned" THEN Append(ids, run.wf.id) ELSE ids

\* process_video_workflow(video_url) called by a caller of its own
process_video_workflow(video_url) ==
  /\ Len(runs) < MaxRuns
  /\ LET b == workflow_begin(runs, active_workflows, video_url, "direct")
     IN /\ runs' = b.runs
        /\ active_workflows' = b.reg
  /\ UNCHANGED batch
  /\ host_step([name |-> "process_video_workflow_called", ret |-> None])

\* batch_process_videos(video_urls), lines 161-165: up to the first await of
\* the first workflow, or to the return for an empty list
batch_process_videos(video_urls) ==
  /\ batch.pc # "running"
  /\ Len(runs) + Len(video_urls) <= MaxRuns
  /\ IF video_urls = <<>>
     THEN /\ batch' = [pc |-> "returned", urls |-> video_urls, i |-> 0,
                       workflow_ids |-> <<>>]
          /\ UNCHANGED <<runs, active_workflows>>
          /\ host_step([name |-> "batch_process_videos", ret |-> Some(<<>>)])
     ELSE /\ LET b == workflow_begin(runs, active_workflows, video_urls[1], "batch")
             IN /\ runs' = b.runs
                /\ active_workflows' = b.reg
          /\ batch' = [pc |-> "running", urls |-> video_urls, i |-> 1,
                       workflow_ids |-> <<>>]
          /\ host_step([name |-> "batch_process_videos_called", ret |-> None])

\* a loop that gives up at the first workflow that raised
batch_aborts_on_failure(b, run) == run.pc = "returned" /\ b.i < Len(b.urls)

\* lines 163-168: the for loop takes the next url after a workflow returned
\* and after one raised, which the except clause only logs
batch_continues(b, run) == b.i < Len(b.urls)

\* the awaited step of run r ends in out: the workflow goes on to its next
\* await or ends; a run of the batch that ends hands control back to the loop
\* of batch_process_videos, which runs to the next workflow's first await or
\* to its return
workflow_resume(r, out) ==
  /\ runs[r].pc = "await"
  /\ out \in step_outcomes(runs[r].step, runs[r].wf.video_url)
  /\ LET after == run_after(runs[r], out)
         rs == [runs EXCEPT ![r] = after]
     IN IF after.pc = "await"
        THEN /\ runs' = rs
             /\ UNCHANGED <<active_workflows, batch>>
             /\ host_step(Step)
        ELSE IF after.caller = "direct"
        THEN /\ runs' = rs
             /\ UNCHANGED <<active_workflows, batch>>
             /\ host_step([name |-> "process_video_workflow",
                           ret |-> IF after.pc = "returned"
                                   THEN Some(after.wf.id) ELSE None])
        ELSE LET ids == batch_collect(batch.workflow_ids, after)
             IN IF batch_continues(batch, after)
                THEN /\ LET b == workflow_begin(rs, active_workflows,
                                                batch.urls[batch.i + 1], "batch")
                        IN /\ runs' = b.runs
                           /\ active_workflows' = b.reg
                     /\ batch' = [batch EXCEPT !.i = @ + 1, !.workflow_ids = ids]
                     /\ host_step(Step)
                ELSE /\ runs' = rs
                     /\ UNCHANGED active_workflows
                     /\ batch' = [batch EXCEPT !.pc = "returned",
                                               !.workflow_ids = ids]
                     /\ host_step([name |-> "batch_process_videos",
                                   ret |-> Some(ids)])

StepOutcomes == Outcomes \cup UNION {analyze_video_content_outcomes(u) : u \in Urls}

\* the url lists given to batch_process_videos
UrlLists == UNION {[1..n -> Urls] : n \in 0..MaxBatch}

HostNext ==
  \/ \E u \in Urls : process_video_workflow(u)
  \/ \E us \in UrlLists : batch_process_videos(us)
  \/ \E r \in 1..Len(runs), out \in StepOutcomes : workflow_resume(r, out)

HostSpec == Init /\ [][HostNext]_vars

\* ------------------------------------------------------------ specification
Next ==
  \/ start
  \/ stop
  \/ \E l \in 1..Len(loops) : stop_return(l)
  \/ \E u \in Urls : process_video(u)
  \/ \E l \in 1..Len(loops) : process_queue_cancelled(l)
  \/ \E l \in 1..Len(loops) : process_queue_begin(l)
  \/ \E l \in 1..Len(loops) : process_queue_get(l)
  \/ \E l \in 1..Len(loops) : process_queue_timeout(l)
  \/ \E w \in 1..Len(workers) : worker_enter(w)
  \/ \E w \in 1..Len(workers), out \in Outcomes : worker_finish(w, out)

Spec == Init /\ [][Next]_vars

\* the executor with errors in the dispatcher loop
ErrorNext ==
  \/ start
  \/ stop
  \/ \E l \in 1..Len(loops) : stop_return(l)
  \/ \E u \in Urls : process_video(u)
  \/ \E l \in 1..Len(loops) : process_queue_cancelled(l)
  \/ \E l \in 1..Len(loops) : process_queue_begin(l)
  \/ \E l \in 1..Len(loops) : process_queue_get(l)
  \/ \E l \in 1..Len(loops) : process_queue_timeout(l)
  \/ \E l \in 1..Len(loops) : process_queue_error(l)
  \/ \E w \in 1..Len(workers) : worker_enter(w)
  \/ \E w \in 1..Len(workers), out \in Outcomes : worker_finish(w, out)

ErrorSpec == Init /\ [][ErrorNext]_vars

\* the event loop runs every task that is ready: a worker that can take a
\* permit takes it, however often other workers get in first (the waiters of
\* asyncio.Semaphore are woken in turn), and a backend call that holds a
\* permit returns
Fairness ==
  \A w \in 1..MaxTasks :
    /\ SF_vars(w <= Len(workers) /\ worker_enter(w))
    /\ WF_vars(w <= Len(workers) /\ \E out \in Outcomes : worker_finish(w, out))

\* the executor within a budget of tasks and dispatcher loops
WithinFair(A) == A /\ Len(tasks') + Len(loops') <= MaxFair

FairNext ==
  \/ WithinFair(start)
  \/ WithinFair(stop)
  \/ \E l \in 1..Len(loops) : WithinFair(stop_return(l))
  \/ \E u \in Urls : WithinFair(process_video(u))
  \/ \E l \in 1..Len(loops) : WithinFair(process_queue_cancelled(l))
  \/ \E l \in 1..Len(loops) : WithinFair(process_queue_begin(l))
  \/ \E l \in 1..Len(loops) : WithinFair(process_queue_get(l))
  \/ \E l \in 1..Len(loops) : WithinFair(process_queue_timeout(l))
  \/ \E w \in 1..Len(workers) : WithinFair(worker_enter(w))
  \/ \E w \in 1..Len(workers), out \in Outcomes : WithinFair(worker_finish(w, out))

FairSpec == Init /\ [][FairNext]_vars /\ Fairness

\* the event loop also runs the dispatcher loop task when it is ready: a
\* created loop task takes its first step, and a loop waiting on a queue that
\* has an item gets it
DispatchFairness ==
  \A l \in 1..MaxLoops :
    /\ WF_vars(l <= Len(loops) /\ process_queue_begin(l))
    /\ WF_vars(l <= Len(loops) /\ process_queue_get(l))

LiveSpec == Init /\ [][FairNext]_vars /\ Fairness /\ DispatchFairness

\* executor and orchestrator side by side, as in a HostAgent and its
\* video_executor: the same actions, explored up to MaxSystem tasks and
\* workflow runs together
WithinSystem(A) == A /\ Len(tasks') + Len(runs') + Len(loops') <= MaxSystem

SystemNext ==
  \/ WithinSystem(start)
  \/ WithinSystem(stop)
  \/ \E l \in 1..Len(loops) : WithinSystem(stop_return(l))
  \/ \E u \in Urls : WithinSystem(process_video(u))
  \/ \E l \in 1..Len(loops) : WithinSystem(process_queue_cancelled(l))
  \/ \E l \in 1..Len(loops) : WithinSystem(process_queue_begin(l))
  \/ \E l \in 1..Len(loops) : WithinSystem(process_queue_get(l))
  \/ \E l \in 1..Len(loops) : WithinSystem(process_queue_timeout(l))
  \/ \E w \in 1..Len(workers) : WithinSystem(worker_enter(w))
  \/ \E w \in 1..Len(workers), out \in Outcomes : WithinSystem(worker_finish(w, out))
  \/ \E u \in Urls : WithinSystem(process_video_workflow(u))
  \/ \E us \in UrlLists : Len(us) <= MaxSystem /\ WithinSystem(batch_process_videos(us))
  \/ \E r \in 1..Len(runs), out \in StepOutcomes : WithinSystem(workflow_resume(r, out))

SystemSpec == Init /\ [][SystemNext]_vars

\* ------------------------------------------------------------------ queries
\* a lookup that stores a fresh record under a key it does not find
after_get_inserting(d, k) ==
  IF Pos(d, k) = 0 THEN Append(d, NewTask(k, GoodUrl, time_time)) ELSE d

\* dict.get(key) leaves the dict as it is
after_get(d, k) == d

\* self.tasks.get(task_id), line 98
get_task_status(task_id) ==
  IF Pos(tasks, task_id) = 0 THEN None ELSE Some(tasks[Pos(tasks, task_id)])

\* list(self.tasks.values()), line 102
get_all_tasks == tasks

\* the calls of the six accessors; none of them awaits
get_task_status_call(task_id) ==
  /\ tasks' = after_get(tasks, task_id)
  /\ exec_step([name |-> "get_task_status", arg |-> task_id,
                ret |-> get_task_status(task_id)])
  /\ UNCHANGED <<task_queue, semaphore, _running, _processor_task, loops,
                 stopWait, workers, stopped>>

get_all_tasks_call ==
  exec_step([name |-> "get_all_tasks", ret |-> get_all_tasks]) /\ UNCHANGED execVars

get_queue_size_call ==
  exec_step([name |-> "get_queue_size", ret |-> get_queue_size]) /\ UNCHANGED execVars

get_active_tasks_count_call ==
  /\ exec_step([name |-> "get_active_tasks_count", ret |-> get_active_tasks_count])
  /\ UNCHANGED execVars

get_workflow_status_call(id) ==
  host_step([name |-> "get_workflow_status", arg |-> id,
             ret |-> get_workflow_status(id)])
    /\ UNCHANGED hostVars

get_all_workflows_call ==
  host_step([name |-> "get_all_workflows", ret |-> get_all_workflows])
    /\ UNCHANGED hostVars

\* the ids asked for: those handed out so far and one never handed out
TaskIds == 1..(Len(tasks) + 1)
WorkflowIds == {<<"workflow", n>> : n \in 1..(Len(active_workflows) + 1)}

\* the executor and the orchestrator within a budget, with their accessors
WithinQuery(A) == A /\ Len(tasks') + Len(runs') + Len(loops') <= MaxQuery

QueryNext ==
  \/ WithinQuery(start)
  \/ WithinQuery(stop)
  \/ \E l \in 1..Len(loops) : WithinQuery(stop_return(l))
  \/ \E u \in Urls : WithinQuery(process_video(u))
  \/ \E l \in 1..Len(loops) : WithinQuery(process_queue_cancelled(l))
  \/ \E l \in 1..Len(loops) : WithinQuery(process_queue_begin(l))
  \/ \E l \in 1..Len(loops) : WithinQuery(process_queue_get(l))
  \/ \E l \in 1..Len(loops) : WithinQuery(process_queue_timeout(l))
  \/ \E w \in 1..Len(workers) : WithinQuery(worker_enter(w))
  \/ \E w \in 1..Len(workers), out \in Outcomes : WithinQuery(worker_finish(w, out))
  \/ \E u \in Urls : WithinQuery(process_video_workflow(u))
  \/ \E us \in UrlLists : Len(us) <= MaxQuery /\ WithinQuery(batch_process_videos(us))
  \/ \E r \in 1..Len(runs), out \in StepOutcomes : WithinQuery(workflow_resume(r, out))
  \/ \E id \in TaskIds : get_task_status_call(id)
  \/ get_all_tasks_call
  \/ get_queue_size_call
  \/ get_active_tasks_count_call
  \/ \E id \in WorkflowIds : get_workflow_status_call(id)
  \/ get_all_workflows_call

QuerySpec == Init /\ [][QueryNext]_vars

\* ------------------------------------------------------------ direct calls
\* a direct call that takes a permit for the time of the backend call
direct_call_gated(sem) == sem - 1

\* "return await self.agent.process_video(video_url)", line 156, is outside
\* any "async with self.semaphore": the permits are as before
direct_call(sem) == sem

\* process_video_sync(video_url), lines 145-156: up to the await of the
\* backend call
process_video_sync(video_url) ==
  /\ sync_calls' = Append(sync_calls, [video_url |-> video_url, pc |-> "await"])
  /\ semaphore' = direct_call(semaphore)
  /\ op' = [name |-> "process_video_sync_called", ret |-> None]
  /\ UNCHANGED <<tasks, task_queue, _running, _processor_task, loops, stopWait,
                 workers, stopped, hostVars>>

\* the backend call of process_video_sync ends: the result is returned, an
\* exception goes on to the caller
process_video_sync_return(c, out) ==
  /\ sync_calls[c].pc = "await"
  /\ out \in process_video_outcomes(sync_calls[c].video_url)
  /\ sync_calls' = [sync_calls EXCEPT ![c].pc = IF out.ok THEN "returned"
                                                ELSE "raised"]
  /\ op' = [name |-> "process_video_sync",
            ret |-> IF out.ok THEN Some(out.value) ELSE None]
  /\ UNCHANGED <<execVars, hostVars>>

\* the executor beside the direct calls of the backend, process_video_sync
\* and the workflows run by callers of process_video_workflow, each side
\* within its budget
WithinDirect(A) ==
  /\ A
  /\ Len(tasks') + Len(loops') <= MaxGated
  /\ Len(runs') + Len(sync_calls') <= MaxDirect

DirectNext ==
  \/ WithinDirect(start)
  \/ WithinDirect(stop)
  \/ \E l \in 1..Len(loops) : WithinDirect(stop_return(l))
  \/ \E u \in Urls : WithinDirect(process_video(u))
  \/ \E l \in 1..Len(loops) : WithinDirect(process_queue_cancelled(l))
  \/ \E l \in 1..Len(loops) : WithinDirect(process_queue_begin(l))
  \/ \E l \in 1..Len(loops) : WithinDirect(process_queue_get(l))
  \/ \E l \in 1..Len(loops) : WithinDirect(process_queue_timeout(l))
  \/ \E w \in 1..Len(workers) : WithinDirect(worker_enter(w))
  \/ \E w \in 1..Len(workers), out \in Outcomes : WithinDirect(worker_finish(w, out))
  \/ \E u \in Urls : WithinDirect(process_video_workflow(u))
  \/ \E r \in 1..Len(runs), out \in StepOutcomes : WithinDirect(workflow_resume(r, out))
  \/ \E u \in Urls : WithinDirect(process_video_sync(u))
  \/ \E c \in 1..Len(sync_calls), out \in Outcomes : process_video_sync_return(c, out)

DirectSpec == Init /\ [][DirectNext]_vars

\* =================================================================== claims
TaskIx == 1..Len(tasks)
Terminal == {"completed", "failed"}

\* C1: in every reachable state the number of tasks whose status is
\* processing, which is what get_active_tasks_count reports, is at most
\* max_concurrent_tasks.
C1_ConcurrencyBound == get_active_tasks_count <= max_concurrent_tasks

\* the bound is reached while another dequeued task waits for a permit
C1_Witness ==
  /\ get_active_tasks_count = max_concurrent_tasks
  /\ \E w \in 1..Len(workers) : workers[w].pc = "blocked"

\* one step of a task's status: it stays, or moves one place along
\* pending, processing, completed|failed
LifecycleStep(a, b) ==
  \/ a = b
  \/ a = "pending" /\ b = "processing"
  \/ a = "processing" /\ b \in Terminal

\* C2: every task starts pending and each step changes its status only from
\* pending to processing or from processing to completed or failed; a
\* completed or failed task keeps its status.
C2_MonotonicLifecycle ==
  [][/\ Len(tasks') >= Len(tasks)
     /\ \A i \in TaskIx : /\ tasks'[i].task_id = tasks[i].task_id
                          /\ LifecycleStep(tasks[i].status, tasks'[i].status)
     /\ \A i \in (Len(tasks) + 1)..Len(tasks') : tasks'[i].status = "pending"]_vars

\* both terminal statuses have been reached while a third task is under way
C2_Witness ==
  /\ \E i \in TaskIx : tasks[i].status = "completed"
  /\ \E i \in TaskIx : tasks[i].status = "failed"
  /\ \E i \in TaskIx : tasks[i].status = "processing"

\* C3: after stop() has returned and until start() is called again, no task
\* goes from pending to processing, be it still queued or already handed to
\* a worker.
C3_NoProcessingAfterStop ==
  [][stopped => \A i \in TaskIx :
        ~(tasks[i].status = "pending" /\ tasks'[i].status = "processing")]_vars

\* C3, amended: after stop() has returned and until start() is called again
\* nothing leaves the admission queue, so a queued task stays pending; a
\* task that goes from pending to processing was handed to its worker before.
C3_NoDequeueAfterStop ==
  [][stopped =>
       /\ Len(task_queue') >= Len(task_queue)
       /\ SubSeq(task_queue', 1, Len(task_queue)) = task_queue
       /\ workers' = workers \/ Len(workers') = Len(workers)
       /\ \A i \in TaskIx :
            tasks[i].status = "pending" /\ tasks'[i].status = "processing" =>
              \E w \in 1..Len(workers) : workers[w].task = tasks[i].task_id]_vars

\* stop() has returned with one task queued and another not yet processing
\* in the hands of a worker
C3_Witness ==
  /\ stopped
  /\ task_queue # <<>>
  /\ \E w \in 1..Len(workers) : workers[w].pc \in {"created", "blocked"}

\* the record get_workflow_status finds for the workflow of run r
Found(r) == get_workflow_status(runs[r].wf.id)

\* C4: when the k-th step of a run fails, the record found in the registry
\* has exactly k step records, k-1 completed and the k-th failed, results for
\* the k-1 completed steps only, and status failed.
C4_FailedStepRecorded ==
  \A r \in 1..Len(runs) :
    runs[r].pc = "raised" =>
      /\ Found(r) # None
      /\ LET wf == Found(r)[1]
             k == runs[r].step
         IN /\ wf.status = "failed"
            /\ Len(wf.results) = k - 1
            /\ Len(wf.steps) = k
            /\ \A j \in 1..(k - 1) : wf.steps[j].status = "completed"
            /\ wf.steps[k].status = "failed"

\* C5: batch_process_videos returns one workflow id per input, in input
\* order, the ids of the failed runs included; each id looks up to the
\* workflow of its input, failed or completed.
C5_BatchReturnsEveryId ==
  batch.pc = "returned" =>
    /\ Len(batch.workflow_ids) = Len(batch.urls)
    /\ \A k \in 1..Len(batch.workflow_ids) :
         LET found == get_workflow_status(batch.workflow_ids[k])
         IN /\ found # None
            /\ found[1].video_url = batch.urls[k]
            /\ found[1].status \in Terminal

\* the ids handed to workers so far, then the ids still queued: every id
\* submit has returned, in the order of the submit calls
Submitted == [w \in 1..Len(workers) |-> workers[w].task] \o task_queue

Distinct(q) == \A i, j \in 1..Len(q) : i # j => q[i] # q[j]

\* C6: the task ids submit returned are pairwise distinct and so are the
\* workflow ids of all runs, ended or not; every id has its own entry in its
\* registry, none was overwritten.
C6_UniqueIds ==
  /\ Distinct(Submitted)
  /\ Len(tasks) = Len(Submitted)
  /\ Distinct([r \in 1..Len(runs) |-> runs[r].wf.id])
  /\ Len(active_workflows) = Len(runs)
  /\ \A r \in 1..Len(runs) : Found(r) = Some(runs[r].wf)

\* a task was submitted and two workflows were started, the second after the
\* first had failed
C6_Witness ==
  /\ Len(tasks) >= 1
  /\ Len(runs) = 2
  /\ runs[1].pc = "raised"
  /\ runs[2].pc = "await"

\* the dispatcher loops that can still take a task from the queue
ActiveLoops == {l \in 1..Len(loops) : loops[l] \in {"created", "waiting"}}

\* C7: at most one dispatcher loop is active after any start() and stop()
\* calls, start() on a running executor changes nothing, and every submitted
\* task is in the queue once or with one worker, never twice.
C7_IdempotentStart ==
  /\ [](Cardinality(ActiveLoops) <= 1 /\ Distinct(Submitted))
  /\ [][op'.name = "start" /\ _running => UNCHANGED execState]_vars

\* start() was called on a running executor whose second loop had already
\* dispatched work
C7_Witness ==
  /\ op.name = "start"
  /\ Len(loops) = 2
  /\ loops[2] = "waiting"
  /\ Len(workers) >= 2

\* C8: submit adds one task, pending and without result, error or
\* completed_at, at the end of the store and at the tail of the queue, returns
\* its id, and leaves every other record and the rest of the executor alone.
C8_SubmitAddsOnePending ==
  [][op'.name = "process_video" =>
       /\ Len(tasks') = Len(tasks) + 1
       /\ \A i \in TaskIx : tasks'[i] = tasks[i]
       /\ LET t == tasks'[Len(tasks')]
          IN /\ t.status = "pending"
             /\ t.result = None /\ t.error = None /\ t.completed_at = None
             /\ op'.ret = Some(t.task_id)
             /\ task_queue' = Append(task_queue, t.task_id)
       /\ UNCHANGED <<semaphore, _running, _processor_task, loops, stopWait,
                      workers>>]_vars

\* a submit on a stopped executor that holds queued, running and ended tasks
C8_Witness ==
  /\ op.name = "process_video"
  /\ stopped
  /\ Len(task_queue) = 1
  /\ \E i \in TaskIx : tasks[i].status = "processing"
  /\ \E i \in TaskIx : tasks[i].status \in Terminal

\* C9: a task has a result exactly when it is completed and an error exactly
\* when it is failed, so never both, and neither while pending or processing.
C9_ResultXorError ==
  \A i \in TaskIx :
    /\ (tasks[i].result # None) <=> (tasks[i].status = "completed")
    /\ (tasks[i].error # None) <=> (tasks[i].status = "failed")

\* one task ended with a result and another with an error
C9_Witness ==
  /\ \E i \in TaskIx : tasks[i].status = "completed" /\ tasks[i].result # None
  /\ \E i \in TaskIx : tasks[i].status = "failed" /\ tasks[i].error # None

\* C10: completed_at has had no assignment while the task is pending or
\* processing and exactly one from the step that left processing onwards.
C10_CompletedAtOnce ==
  \A i \in TaskIx :
    Len(tasks[i].completed_at) = IF tasks[i].status \in Terminal THEN 1 ELSE 0

\* every submitted task has ended, some of them after waiting for a permit
C10_Witness ==
  /\ Len(tasks) = MaxTasks
  /\ \A i \in TaskIx : tasks[i].status \in Terminal
  /\ \A i \in TaskIx : Len(tasks[i].completed_at) = 1


\* C11: the free permits and the permits held by the workers between
\* acquisition and termination always add up to max_concurrent_tasks, one
\* held permit per task being processed, so that all the permits are free
\* whenever no task is processing, whichever way the workers ended.
Holding == {w \in 1..Len(workers) : workers[w].pc = "backend"}

C11_PermitsConserved ==
  /\ semaphore + Cardinality(Holding) = max_concurrent_tasks
  /\ Cardinality(Holding) = get_active_tasks_count
  /\ get_active_tasks_count = 0 => semaphore = max_concurrent_tasks

\* one worker ended on a result, one on an error, and every permit is back
C11_Witness ==
  /\ \E i \in TaskIx : tasks[i].status = "failed"
  /\ \E i \in TaskIx : tasks[i].status = "completed"
  /\ get_active_tasks_count = 0
  /\ semaphore = max_concurrent_tasks


\* C12: the step in which the backend call of task t fails stores the error in
\* t and sets t to failed; it leaves every other task record, the admission
\* queue, the dispatcher loops and every other worker as they were and gives
\* the permit back, so the other tasks go on to processing and to their end.
C12_FailureIsLocal ==
  [][\A i \in TaskIx :
       (tasks[i].status = "processing" /\ tasks'[i].status = "failed") =>
         /\ tasks'[i].error # None
         /\ \A j \in TaskIx \ {i} : tasks'[j] = tasks[j]
         /\ Len(tasks') = Len(tasks)
         /\ task_queue' = task_queue
         /\ loops' = loops /\ _running' = _running
         /\ _processor_task' = _processor_task
         /\ semaphore' = semaphore + 1
         /\ \A w \in 1..Len(workers) :
              workers[w].task # tasks[i].task_id => workers'[w] = workers[w]]_vars

\* the first task failed while the dispatcher was running; the loop is still
\* alive and tasks submitted after it are processing or have completed
C12_Witness ==
  /\ Len(tasks) = MaxTasks
  /\ tasks[1].status = "failed"
  /\ tasks[2].status = "completed"
  /\ tasks[3].status = "processing"
  /\ _running
  /\ \E l \in 1..Len(loops) : loops[l] = "waiting"


\* C13: over the whole execution each task is handed to at most one worker,
\* which calls the backend once; a failed task is neither in the admission
\* queue nor with a worker that has not ended, also after stop() and a new
\* start().
WorkersOf(task_id) == {w \in 1..Len(workers) : workers[w].task = task_id}
InQueue(task_id) == \E k \in 1..Len(task_queue) : task_queue[k] = task_id

C13_BackendAtMostOnce ==
  \A i \in TaskIx :
    /\ Cardinality(WorkersOf(tasks[i].task_id)) <= 1
    /\ InQueue(tasks[i].task_id) => WorkersOf(tasks[i].task_id) = {}
    /\ tasks[i].status = "failed" =>
         /\ ~InQueue(tasks[i].task_id)
         /\ \A w \in WorkersOf(tasks[i].task_id) : workers[w].pc = "done"

\* a task failed, the executor was stopped and started again, and the second
\* dispatcher loop has emptied the queue
C13_Witness ==
  /\ \E i \in TaskIx : tasks[i].status = "failed"
  /\ Len(loops) = 2 /\ loops[1] = "done" /\ loops[2] = "waiting"
  /\ Len(workers) = Len(tasks) /\ Len(tasks) >= 2
  /\ task_queue = <<>>


\* C14: a workflow run that awaits step k has recorded the steps 1..k-1, in
\* that order and all completed, and no other; a run whose step failed awaits
\* nothing and never takes another step.
RunIx == 1..Len(runs)

StepsInOrder(wf, n) ==
  /\ Len(wf.steps) = n
  /\ \A j \in 1..n : /\ wf.steps[j].name = step_name(j)
                     /\ wf.steps[j].status = "completed"

C14_StepsInOrder ==
  [][\A r \in RunIx :
       /\ runs[r].pc = "await" => StepsInOrder(runs[r].wf, runs[r].step - 1)
       /\ runs[r].pc = "await" /\ runs'[r] # runs[r] =>
            \/ /\ runs'[r].pc = "await"
               /\ runs'[r].step = runs[r].step + 1
               /\ StepsInOrder(runs'[r].wf, runs[r].step)
            \/ /\ runs'[r].pc = "returned"
               /\ runs[r].step = last_step
               /\ StepsInOrder(runs'[r].wf, last_step)
            \/ /\ runs'[r].pc = "raised"
               /\ runs'[r].step = runs[r].step
               /\ runs'[r].wf.steps = runs[r].wf.steps
       /\ runs[r].pc # "await" => runs'[r] = runs[r]]_vars

\* one run awaits its second step after the first completed, and another run
\* has stopped at a failure of its second step
C14_Witness ==
  /\ \E r \in RunIx : runs[r].pc = "await" /\ runs[r].step = 2
  /\ \E r \in RunIx : runs[r].pc = "raised" /\ runs[r].step = 2


\* C15 (as stated): at every point of a run the key set of results is the set
\* of the names of the completed step records.
Keys(wf) == {wf.results[j].key : j \in 1..Len(wf.results)}
CompletedSteps(wf) == {j \in 1..Len(wf.steps) : wf.steps[j].status = "completed"}

key_of(name) == IF name = step_name(1) THEN result_key(1) ELSE result_key(2)

WorkflowEnded(wf) == wf.status \in {"completed", "failed"}

C16_TerminalIsFinal ==
  [][/\ \A r \in RunIx :
          /\ runs'[r].wf.status # runs[r].wf.status =>
               runs[r].wf.status = "processing" /\ WorkflowEnded(runs'[r].wf)
          /\ runs'[r].wf.status = "completed" <=>
               StepsInOrder(runs'[r].wf, last_step)
          /\ WorkflowEnded(runs[r].wf) => runs'[r].wf = runs[r].wf
     /\ \A e \in 1..Len(active_workflows) :
          WorkflowEnded(get_all_workflows[e]) =>
            /\ active_workflows'[e].id = active_workflows[e].id
            /\ get_all_workflows'[e] = get_all_workflows[e]]_vars

\* a completed and a failed workflow are in the registry while a later run is
\* under way
C16_Witness ==
  /\ Len(active_workflows) = 3
  /\ get_all_workflows[1].status = "completed"
  /\ get_all_workflows[2].status = "failed"
  /\ get_all_workflows[3].status = "processing"
  /\ Len(get_all_workflows[3].steps) = 1


\* the errors the step a run is at can raise for the run's url
step_errors(run) ==
  {o.value : o \in {x \in step_outcomes(run.step, run.wf.video_url) : ~x.ok}}

\* C17: in every state of the registry a workflow record has an error exactly
\* when its status is failed; the error was assigned once and is an error of
\* the step at which the run stopped.
C17_ErrorIffFailed ==
  \A e \in 1..Len(active_workflows) :
    LET run == runs[active_workflows[e].ref]
    IN /\ run.wf.error # None <=> run.wf.status = "failed"
       /\ run.wf.status = "failed" =>
            /\ Len(run.wf.error) = 1
            /\ run.wf.error[1] \in step_errors(run)

\* the registry holds a workflow that failed at its second step with the
\* error of that step, a completed workflow and a processing one, both
\* without error
C17_Witness ==
  /\ \E e \in 1..Len(active_workflows) :
       /\ get_all_workflows[e].status = "failed"
       /\ Len(get_all_workflows[e].steps) = 1
       /\ get_all_workflows[e].error = Some("service error")
  /\ \E e \in 1..Len(active_workflows) :
       /\ get_all_workflows[e].status = "completed"
       /\ get_all_workflows[e].error = None
  /\ \E e \in 1..Len(active_workflows) :
       /\ get_all_workflows[e].status = "processing"
       /\ get_all_workflows[e].error = None


\* C18: from the step in which process_video_workflow raises to its caller
\* on, get_workflow_status finds the record of that workflow, with status
\* failed and the error set: it never reports processing for it.
C18_FailedBeforeRaise ==
  \A r \in RunIx :
    runs[r].pc = "raised" =>
      /\ Found(r) = Some(runs[r].wf)
      /\ Found(r)[1].status = "failed"
      /\ Found(r)[1].error # None

\* process_video_workflow has just raised to a direct caller, at the first
\* step, while an earlier workflow is in the registry
C18_Witness ==
  /\ op = [name |-> "process_video_workflow", ret |-> None]
  /\ \E r \in RunIx : /\ r > 1
                      /\ runs[r].pc = "raised" /\ runs[r].caller = "direct"
                      /\ runs[r].step = 1
                      /\ Found(r) # None


\* the run batch_process_videos started for the k-th url of its list: the
\* batch runs are started one after the other, so the runs of the current
\* call are the last batch.i runs started by a batch
BatchRunIx == {r \in RunIx : runs[r].caller = "batch"}
BatchRun(k) ==
  CHOOSE r \in BatchRunIx :
    Cardinality({q \in BatchRunIx : q > r}) = batch.i - k

\* C19: batch_process_videos goes through its whole list whatever the runs
\* end in: each url taken so far has a run and a registry record of its own,
\* the call is at the run of its last url taken until that run ends, and it
\* returns only after a run for every url has ended; it never fails.
C19_BatchSurvivesFailure ==
  /\ batch.i <= Cardinality(BatchRunIx)
  /\ \A k \in 1..batch.i :
       /\ runs[BatchRun(k)].wf.video_url = batch.urls[k]
       /\ Found(BatchRun(k)) = Some(runs[BatchRun(k)].wf)
       /\ k < batch.i => runs[BatchRun(k)].pc \in {"returned", "raised"}
  /\ batch.pc = "running" =>
       batch.i >= 1 /\ runs[BatchRun(batch.i)].pc = "await"
  /\ batch.pc = "returned" =>
       /\ batch.i = Len(batch.urls)
       /\ \A k \in 1..batch.i : runs[BatchRun(k)].pc \in {"returned", "raised"}
       /\ op.name = "batch_process_videos" => op.ret # None

\* a batch of three has returned: the run of the first url raised, the run of
\* the second completed after it and the run of the third ended too
C19_Witness ==
  /\ batch.pc = "returned" /\ Len(batch.urls) = 3
  /\ op.name = "batch_process_videos"
  /\ runs[BatchRun(1)].pc = "raised"
  /\ runs[BatchRun(2)].pc = "returned"
  /\ runs[BatchRun(3)].pc = "raised"
  /\ batch.urls[2] = batch.urls[1]


\* C20: a malformed url is turned away by process_video and by
\* process_video_workflow before anything is recorded: no task record of it is
\* pending, its task is not in the admission queue, and no workflow record of
\* it is processing.
C20_MalformedRejected ==
  /\ \A i \in TaskIx :
       tasks[i].video_url = BadUrl =>
         tasks[i].status # "pending" /\ ~InQueue(tasks[i].task_id)
  /\ \A e \in 1..Len(active_workflows) :
       get_all_workflows[e].video_url = BadUrl =>
         get_all_workflows[e].status # "processing"


\* C21: stop() neither waits for nor cancels the workers: a task that is
\* processing when the executor is not running (stop() called, returned or
\* not) goes on to completed or failed once its backend call returns, and its
\* worker has then left the semaphore block.
EndedReleased(i) ==
  /\ i <= Len(tasks)
  /\ tasks[i].status \in Terminal
  /\ \A w \in WorkersOf(tasks[i].task_id) : workers[w].pc = "done"
  /\ Holding = {w \in 1..Len(workers) : tasks[Pos(tasks, workers[w].task)].status = "processing"}
  /\ semaphore + Cardinality(Holding) = max_concurrent_tasks

C21_InFlightEndsAfterStop ==
  \A i \in 1..MaxTasks :
    (i <= Len(tasks) /\ tasks[i].status = "processing" /\ ~_running)
      ~> EndedReleased(i)

\* stop() has returned while a task is processing
C21_Witness ==
  /\ stopped /\ ~_running
  /\ \E i \in TaskIx : tasks[i].status = "processing"
  /\ semaphore < max_concurrent_tasks


\* C22: once stop() has returned and until start() is called, every
\* dispatcher loop has ended and the executor is not running; a step taken
\* then leaves every queued task in its place in the queue and pending, so
\* get_queue_size does not go down and a task submitted then stays queued.
C22_LoopEndedWhenStopReturns ==
  [][stopped =>
       /\ ~_running
       /\ \A l \in 1..Len(loops) : loops[l] = "done"
       /\ get_queue_size' >= get_queue_size
       /\ \A k \in 1..Len(task_queue) :
            /\ task_queue'[k] = task_queue[k]
            /\ tasks'[Pos(tasks', task_queue[k])].status = "pending"
       /\ Len(tasks') > Len(tasks) =>
            /\ task_queue' = Append(task_queue, tasks'[Len(tasks')].task_id)
            /\ tasks'[Len(tasks')].status = "pending"]_vars

\* stop() has returned and a task has just been submitted: it is in the queue
\* behind an earlier one, and no task has a worker
C22_Witness ==
  /\ stopped
  /\ Len(loops) >= 1
  /\ workers = <<>>
  /\ get_queue_size = 2 /\ Len(tasks) = 2
  /\ op.name = "process_video"


\* C23: the six accessors can be called in every state, while tasks are
\* processing too; a call leaves the task store, the queue, the permits, the
\* running flag, the loop and worker tasks and the workflow registry as they
\* were and returns what is stored; for an id never handed out it returns
\* None and stores nothing.
Accessors == {"get_task_status", "get_all_tasks", "get_queue_size",
              "get_active_tasks_count", "get_workflow_status",
              "get_all_workflows"}

C23_QueriesReadOnly ==
  [][/\ \A id \in TaskIds : ENABLED get_task_status_call(id)
     /\ \A id \in WorkflowIds : ENABLED get_workflow_status_call(id)
     /\ ENABLED get_all_tasks_call /\ ENABLED get_queue_size_call
     /\ ENABLED get_active_tasks_count_call /\ ENABLED get_all_workflows_call
     /\ op'.name \in Accessors =>
          /\ execVars' = execVars /\ hostVars' = hostVars
          /\ op'.name = "get_task_status" =>
               IF \E i \in TaskIx : tasks[i].task_id = op'.arg
               THEN \E i \in TaskIx : /\ tasks[i].task_id = op'.arg
                                      /\ op'.ret = Some(tasks[i])
               ELSE op'.ret = None
          /\ op'.name = "get_active_tasks_count" =>
               op'.ret = Cardinality({i \in TaskIx : tasks[i].status = "processing"})
          /\ op'.name = "get_all_tasks" => op'.ret = tasks
          /\ op'.name = "get_queue_size" => op'.ret = Len(task_queue)
          /\ op'.name = "get_workflow_status" =>
               IF \E r \in RunIx : runs[r].wf.id = op'.arg
               THEN \E r \in RunIx : /\ runs[r].wf.id = op'.arg
                                     /\ op'.ret = Some(runs[r].wf)
               ELSE op'.ret = None
          /\ op'.name = "get_all_workflows" =>
               /\ Len(op'.ret) = Len(runs)
               /\ \A r \in RunIx : op'.ret[r] = runs[r].wf]_vars

\* get_task_status has just returned None for an id never handed out while a
\* task is processing, and no record was added
C23_Witness ==
  /\ op = [name |-> "get_task_status", arg |-> 2, ret |-> None]
  /\ get_active_tasks_count = 1
  /\ Len(tasks) = 1


\* C24: no step removes or reorders a task record: what get_all_tasks returned
\* before a step is, task for task, the head of what it returns after it; a
\* submission adds one record, last, under the id it returns, which no earlier
\* record has, and no other step adds a record.
C24_TasksKept ==
  [][/\ Len(get_all_tasks') >= Len(get_all_tasks)
     /\ \A i \in TaskIx :
          /\ get_all_tasks'[i].task_id = get_all_tasks[i].task_id
          /\ get_all_tasks'[i].video_url = get_all_tasks[i].video_url
          /\ get_all_tasks'[i].created_at = get_all_tasks[i].created_at
     /\ IF op'.name = "process_video"
        THEN /\ Len(get_all_tasks') = Len(get_all_tasks) + 1
             /\ Some(get_all_tasks'[Len(get_all_tasks')].task_id) = op'.ret
             /\ \A i \in TaskIx : Some(get_all_tasks[i].task_id) # op'.ret
        ELSE Len(get_all_tasks') = Len(get_all_tasks)]_vars

\* three tasks were submitted; the first two have ended, the executor was
\* stopped, and get_all_tasks still lists the three in submission order
C24_Witness ==
  /\ Len(get_all_tasks) = MaxTasks
  /\ \A i \in TaskIx : get_all_tasks[i].task_id = i
  /\ get_all_tasks[1].status = "failed"
  /\ get_all_tasks[2].status = "completed"
  /\ get_all_tasks[3].status = "pending"
  /\ stopped


\* C25: under fair scheduling, and with every backend call that holds a permit
\* returning, a worker that waits for a permit gets one and sets its task to
\* processing.
C25_BlockedWorkerAcquires ==
  \A w \in 1..MaxTasks :
    (w <= Len(workers) /\ workers[w].pc = "blocked")
      ~> (/\ w <= Len(workers)
          /\ workers[w].pc = "backend"
          /\ tasks[Pos(tasks, workers[w].task)].status = "processing")

\* a worker waits for a permit while every permit is held
C25_Witness ==
  /\ semaphore = 0
  /\ get_active_tasks_count = max_concurrent_tasks
  /\ \E w \in 1..Len(workers) : workers[w].pc = "blocked"


\* C26: the dispatcher hands the tasks to workers in the order of their
\* submission: the k-th worker created has the k-th task submitted, and the
\* queue holds the tasks submitted after those, in submission order.
C26_FifoAdmission ==
  /\ Len(workers) + Len(task_queue) = Len(tasks)
  /\ \A w \in 1..Len(workers) : workers[w].task = tasks[w].task_id
  /\ \A k \in 1..Len(task_queue) :
       task_queue[k] = tasks[Len(workers) + k].task_id

\* two tasks waited in the queue together; the earlier one has been handed to
\* a worker and the later one is still queued, with a third behind it
C26_Witness ==
  /\ Len(tasks) = 3 /\ Len(workers) = 1 /\ Len(task_queue) = 2
  /\ workers[1].task = tasks[1].task_id
  /\ task_queue[1] = tasks[2].task_id
  /\ op.name = "step"


\* C27: tasks may start out of admission order, and only past the queue: when
\* a task is processing or has ended while a task submitted before it is still
\* pending, the earlier task has left the queue and is with a worker that has
\* not taken a permit yet.
Overtaken(a, b) ==
  /\ a < b
  /\ tasks[a].status = "pending"
  /\ tasks[b].status # "pending"

PendingTasks == {i \in TaskIx : tasks[i].status = "pending"}

C28_DispatchNotThrottled ==
  /\ \A l \in 1..Len(loops) :
       loops[l] = "waiting" /\ task_queue # <<>> => ENABLED process_queue_get(l)
  /\ get_queue_size <= Cardinality(PendingTasks)
  /\ \A k \in 1..Len(task_queue) : Pos(tasks, task_queue[k]) \in PendingTasks

\* the queue is empty, every permit is held by a processing task, and a
\* further task is pending with a worker that waits for a permit, the
\* executor running and its loop waiting on the queue
C28_Witness ==
  /\ get_queue_size = 0
  /\ get_active_tasks_count = max_concurrent_tasks
  /\ semaphore = 0
  /\ Cardinality(PendingTasks) > get_queue_size
  /\ \E w \in 1..Len(workers) : workers[w].pc = "blocked"
  /\ _running /\ \E l \in 1..Len(loops) : loops[l] = "waiting"


\* C29: an error in an iteration of the dispatcher loop changes nothing but
\* the loop's position: the running flag, the task records, the queue, the
\* workers and the permits are as before, and while the executor is running
\* the loop is back waiting on the queue, where it takes the next task.
C29_LoopSurvivesError ==
  [][op'.name = "process_queue_error" =>
       /\ _running' = _running /\ _processor_task' = _processor_task
       /\ tasks' = tasks /\ task_queue' = task_queue
       /\ workers' = workers /\ semaphore' = semaphore
       /\ \A l \in 1..Len(loops) :
            \/ loops'[l] = loops[l]
            \/ ~_running /\ loops[l] = "waiting" /\ loops'[l] = "done"
       /\ _running => \E l \in 1..Len(loops) : loops'[l] = "waiting"]_vars

\* the loop has just had an error while the executor is running with a task
\* in the queue: the loop waits on the queue again
C29_Witness ==
  /\ op.name = "process_queue_error"
  /\ _running
  /\ task_queue # <<>>
  /\ _processor_task # None
  /\ loops[_processor_task[1]] = "waiting"


\* C30: every pending task is in exactly one place: either once in the
\* admission queue and with no worker, or out of the queue and with exactly
\* one worker, which has not taken a permit yet.
QueueCount(task_id) ==
  Cardinality({k \in 1..Len(task_queue) : task_queue[k] = task_id})

C30_PendingInOnePlace ==
  \A i \in PendingTasks :
    \/ /\ QueueCount(tasks[i].task_id) = 1
       /\ WorkersOf(tasks[i].task_id) = {}
    \/ /\ QueueCount(tasks[i].task_id) = 0
       /\ Cardinality(WorkersOf(tasks[i].task_id)) = 1
       /\ \A w \in WorkersOf(tasks[i].task_id) :
            workers[w].pc \in {"created", "blocked"}

\* stop() has cancelled the loop while it waited on the queue: one pending
\* task is in the queue and another is with a worker that has no permit yet,
\* behind a task that is processing
C30_Witness ==
  /\ ~_running
  /\ \E l \in 1..Len(loops) : loops[l] = "cancelled"
  /\ get_active_tasks_count = 1
  /\ \E i \in PendingTasks : QueueCount(tasks[i].task_id) = 1
  /\ \E i \in PendingTasks :
       \E w \in WorkersOf(tasks[i].task_id) : workers[w].pc = "created"


\* C31: with fair scheduling and every backend call returning, a task
\* submitted to an executor that is running, or is started later, reaches
\* completed or failed, unless the executor is stopped before.
C31_EveryTaskEnds ==
  \A i \in 1..MaxTasks :
    (i <= Len(tasks) /\ _running)
      ~> ((i <= Len(tasks) /\ tasks[i].status \in Terminal) \/ ~_running)

\* an executor started once and not stopped since has brought every task
\* submitted to an end, one of them by an error
C31_Witness ==
  /\ _running /\ Len(loops) = 1 /\ loops[1] = "waiting"
  /\ Len(tasks) = MaxTasks
  /\ \A i \in TaskIx : tasks[i].status \in Terminal
  /\ \E i \in TaskIx : tasks[i].status = "failed"


\* the tasks of the queue, earliest submitted first
QueuedInOrder ==
  \A k \in 1..Len(task_queue) :
    /\ Pos(tasks, task_queue[k]) \in PendingTasks
    /\ \A j \in 1..(k - 1) : Pos(tasks, task_queue[j]) < Pos(tasks, task_queue[k])

\* C32: start() and stop() leave the queue and the task records as they are,
\* and nothing leaves the queue while the executor is not running, so a task
\* submitted before start() or left queued by stop() is still there, pending,
\* when a later start() creates a new loop; every dequeue takes the earliest
\* submitted task of the queue; and while the executor runs a queued task
\* becomes processing and then completed or failed.
C32_RestartKeepsQueue ==
  /\ [][/\ op'.name \in {"start", "stop", "stop_called"} =>
             task_queue' = task_queue /\ tasks' = tasks
        /\ ~_running =>
             /\ Len(task_queue') >= Len(task_queue)
             /\ \A k \in 1..Len(task_queue) : task_queue'[k] = task_queue[k]
        /\ ~_running /\ _running' =>
             /\ loops' = Append(loops, "created")
             /\ _processor_task' = Some(Len(loops'))
        /\ QueuedInOrder
        /\ Len(workers') > Len(workers) =>
             /\ workers' = Append(workers, [task |-> Head(task_queue),
                                            pc |-> "created"])
             /\ task_queue' = Tail(task_queue)]_vars
  /\ \A i \in 1..MaxTasks :
       (i <= Len(tasks) /\ InQueue(tasks[i].task_id) /\ _running)
         ~> ((i <= Len(tasks) /\ tasks[i].status = "processing") \/ ~_running)
  /\ \A i \in 1..MaxTasks :
       (i <= Len(tasks) /\ tasks[i].status = "processing")
         ~> (i <= Len(tasks) /\ tasks[i].status \in Terminal)

\* start() has just created a second dispatcher loop after the first one
\* ended without dequeuing: the two tasks submitted so far are both still in
\* the queue, in submission order, for the new loop to take
C32_Witness ==
  /\ op.name = "start" /\ _running
  /\ Len(loops) = 2 /\ loops[1] = "done" /\ loops[2] = "created"
  /\ Len(tasks) = 2 /\ workers = <<>>
  /\ task_queue = <<tasks[1].task_id, tasks[2].task_id>>


\* the backend calls under way: those of the workers, of the workflow steps
\* and of process_video_sync
BackendCalls ==
  Cardinality(Holding)
    + Cardinality({r \in RunIx : runs[r].pc = "await"})
    + Cardinality({c \in 1..Len(sync_calls) : sync_calls[c].pc = "await"})

DirectSteps == {"process_video_sync_called", "process_video_sync",
                "process_video_workflow_called", "process_video_workflow",
                "batch_process_videos_called", "batch_process_videos"}

\* C33: a call of process_video_sync and a step of a workflow run, from
\* their start to their end, leave the task store, the admission queue, the
\* workers and the permits as they were; the tasks in processing are at most
\* max_concurrent_tasks and are the backend calls that hold a permit, however
\* many direct backend calls are under way.
C33_DirectCallsBypassGate ==
  [][/\ (\/ op'.name \in DirectSteps
         \/ sync_calls' # sync_calls
         \/ runs' # runs) =>
          /\ tasks' = tasks /\ task_queue' = task_queue
          /\ semaphore' = semaphore /\ workers' = workers
     /\ get_active_tasks_count <= max_concurrent_tasks
     /\ semaphore + get_active_tasks_count = max_concurrent_tasks]_vars

\* more backend calls are under way than there are permits: one of a task in
\* processing, one of process_video_sync and one of a workflow step, with a
\* permit still free
C33_Witness ==
  /\ BackendCalls > max_concurrent_tasks
  /\ get_active_tasks_count = 1
  /\ semaphore = max_concurrent_tasks - 1
  /\ \E c \in 1..Len(sync_calls) : sync_calls[c].pc = "await"
  /\ \E r \in RunIx : runs[r].pc = "await"


\* the place of workflow id in the registry, in insertion order
RegistryPos(id) ==
  CHOOSE e \in 1..Len(active_workflows) : active_workflows[e].id = id

\* a step in which batch_process_videos enters process_video_workflow
BatchStartsRun ==
  /\ Len(runs') = Len(runs) + 1
  /\ runs'[Len(runs')].caller = "batch"

\* C34: within one batch_process_videos call the workflows run strictly one
\* after the other: the workflow of the next url is created only in a step
\* after which every earlier workflow of the batch is completed or failed, so
\* at most one workflow of the batch is processing at any time, and the
\* registry holds the workflows of the batch in the order of the url list.
C34_BatchRunsSequential ==
  /\ [][BatchStartsRun =>
          /\ batch'.pc = "running"
          /\ batch'.i = IF batch.pc = "running" THEN batch.i + 1 ELSE 1
          /\ runs'[Len(runs')].wf.video_url = batch'.urls[batch'.i]
          /\ runs'[Len(runs')].wf.status = "processing"
          /\ \A r \in 1..Len(runs) :
               runs'[r].caller = "batch" => WorkflowEnded(runs'[r].wf)]_vars
  /\ [](/\ Cardinality({r \in BatchRunIx :
                          runs[r].wf.status = "processing"}) <= 1
        /\ \A k \in 1..batch.i : \A j \in 1..batch.i :
             k < j =>
               /\ WorkflowEnded(runs[BatchRun(k)].wf)
               /\ RegistryPos(runs[BatchRun(k)].wf.id)
                    < RegistryPos(runs[BatchRun(j)].wf.id)
               /\ get_all_workflows[RegistryPos(runs[BatchRun(k)].wf.id)].video_url
                    = batch.urls[k]
               /\ get_all_workflows[RegistryPos(runs[BatchRun(j)].wf.id)].video_url
                    = batch.urls[j])

\* the batch is at its second url after its first workflow failed, and a
\* workflow of another caller, created between the two, is processing too
C34_Witness ==
  /\ batch.pc = "running" /\ batch.i = 2
  /\ Len(runs) = 3
  /\ runs[1].caller = "batch" /\ runs[1].wf.status = "failed"
  /\ runs[2].caller = "direct" /\ runs[2].wf.status = "processing"
  /\ runs[3].caller = "batch" /\ runs[3].wf.status = "processing"
  /\ RegistryPos(runs[1].wf.id) = 1
  /\ RegistryPos(runs[3].wf.id) = 3

====
